---- MODULE Spec2Model ----
(***************************************************************************)
(* Model of buscapi's analysis pipeline (flows/ip_flow.py), its stage      *)
(* executor (tasks/ip_tasks.py) and the PDF job queue                      *)
(* (tasks/pdf_worker.py).                                                   *)
(*                                                                         *)
(* JSON payloads are modelled by representative strings, decoded by        *)
(* json_loads; Python's None is the string "None".  A database or file     *)
(* operation either succeeds or raises; the number of injected failures    *)
(* per behaviour is bounded by MaxFaults.                                  *)
(***************************************************************************)
EXTENDS Integers, Sequences, FiniteSets, TLC

VARIABLES
    pc,            \* position of the run: which handler executes next
    caller,        \* "service" (execute_analysis) or "direct" (kickoff(state))
    state,         \* PropriedadeIntelectualState of the run
    result,        \* what the run handed back to its caller
    query_status,  \* search_query.status of the run's row
    search_log,    \* rows of search_log, as <<message tag, job id or 0>>
    faults,        \* database / file failures injected so far
    invoked,       \* stages whose capability was invoked
    failed,        \* stages whose capability raised on every attempt
    pdf_job_meta,  \* the job whose metadata dict _generate_final_report holds
    jobs,          \* _jobs: in-memory index, job_id -> metadata
    files,         \* static/pdf_jobs/<job_id>.json, job_id -> metadata
    queue,         \* work items submitted to _executor, not yet picked up
    workers,       \* the threads of _executor
    next_job,      \* number of job ids generated so far
    clock,         \* the last reading of the wall clock, in seconds
    submitted,     \* job_id -> the arguments handed to _executor.submit
    render,        \* job_id -> outcome of its render in this process
    got,           \* the last answer of get_job_meta
    raw_rows,      \* table search_result_raw, in the order of the row ids
    records,       \* the raw_data dicts callers hold: how many _hash layers each has
    conns,         \* per database connection, the insert_search_result_raw in progress
    raw_ids,       \* what the finished calls of insert_search_result_raw returned
    collector_out, \* the decoded output of the last run of IPDataCollectorTool
    task_call      \* the last call of IPTaskManager.execute_task, with its result

vars == <<pc, caller, state, result, query_status, search_log, faults, invoked,
          failed, pdf_job_meta, jobs, files, queue, workers, next_job, clock,
          submitted, render, got, raw_rows, records, conns, raw_ids,
          collector_out, task_call>>

flow_vars == <<pc, caller, state, result, query_status, invoked, failed, pdf_job_meta>>

job_vars == <<jobs, files, queue, workers, next_job, submitted, render>>

tool_vars == <<raw_rows, records, conns, raw_ids, collector_out, task_call>>

-----------------------------------------------------------------------------
(* Bounds of the model *)

MaxFaults == 1

MaxJobs == 2

\* raw_data dicts held by callers, concurrent connections, and calls of
\* insert_search_result_raw per behaviour
MaxRecs == 3

MaxConns == 2

MaxCalls == 3

\* Items the providers hand to one run of the collector
MaxItems == 3
\* Jobs enqueued in a burst: more than the pool has threads
MaxBurst == 3
\* Tools an agent holds at most
MaxTools == 2
\* Largest value of the retries parameter
MaxRetries == 2

(* Program constants *)

MaxWorkers == 2

CollectRetries == 2

ClassifyRetries == 2

AnalysisRetries == 2

VisualizationRetries == 1

-----------------------------------------------------------------------------
(* Values *)

None == "None"

Raise == "<raise>"

\* Representative JSON strings a capability can hand back: the empty string,
\* malformed JSON, a number, an empty list, a one-item list, an object with
\* an 'insights' key.
Payloads == {"", "{bad", "5", "[]", "[x]", "{ins}"}

Outcomes == Payloads \cup {Raise}

\* Python truthiness of an Optional[str]
Truthy(s) == s # None /\ s # ""

\* json.loads: the decoded value, or a decode error
json_loads(s) ==
    CASE s = "[]"    -> [kind |-> "list", len |-> 0, insights |-> FALSE]
      [] s = "[x]"   -> [kind |-> "list", len |-> 1, insights |-> FALSE]
      [] s = "{ins}" -> [kind |-> "dict", len |-> 1, insights |-> TRUE]
      [] s = "5"     -> [kind |-> "int", len |-> 0, insights |-> FALSE]
      [] OTHER       -> [kind |-> "error", len |-> 0, insights |-> FALSE]

EmptyList == [kind |-> "list", len |-> 0, insights |-> FALSE]

EmptyDict == [kind |-> "dict", len |-> 0, insights |-> FALSE]

\* _safe_json_load(json_str, default_value)
safe_json_load(json_str, default_value) ==
    IF ~Truthy(json_str) THEN default_value
    ELSE IF json_loads(json_str).kind = "error" THEN default_value
    ELSE json_loads(json_str)

\* len(x) is defined for lists and dicts only
HasLen(v) == v.kind \in {"list", "dict"}

\* x.get(...) is defined for dicts only
HasGet(v) == v.kind = "dict"

InitialState(sqid, criteria) ==
    [search_query_id |-> sqid, search_criteria |-> criteria,
     raw_data_json |-> None, classified_data_json |-> None,
     analysis_results_json |-> None, visualizations_json |-> None,
     final_report |-> <<>>, error_message |-> None]

\* A state handed to kickoff with its payloads already filled in, as
\* scripts/smoke_pdf_enqueue.py does: two lists and two objects
SmokeState(sqid, criteria) ==
    [search_query_id |-> sqid, search_criteria |-> criteria,
     raw_data_json |-> "[]", classified_data_json |-> "[]",
     analysis_results_json |-> "{ins}", visualizations_json |-> "{ins}",
     final_report |-> <<>>, error_message |-> None]

-----------------------------------------------------------------------------
(* tasks/ip_tasks.py: IPTaskManager.execute_task, the retry loop *)

\* A loop bound that reads retries as the number of tries after the first
AttemptsAfterFirst(retries) == IF retries < 1 THEN 1 ELSE retries + 1

\* Line 183: range(1, max(1, retries) + 1)
Attempts(retries) == IF retries < 1 THEN 1 ELSE retries

\* What _run can raise: two exceptions that differ
Raises == {Raise, "<raise2>"}

RECURSIVE retry_loop(_, _, _, _)
\* Lines 182-198 from the given attempt on: outs[i] is what the chosen tool's
\* _run does at the i-th attempt.  The first attempt that returns ends the
\* loop; an exception is kept in last_exc and the loop goes on; after the last
\* attempt a RuntimeError is raised whose message holds retries and last_exc.
retry_loop(outs, retries, attempt, last_exc) ==
    IF attempt > Attempts(retries)
    THEN [raised |-> TRUE, out |-> None, attempts |-> attempt - 1,
          error |-> <<"Falha ao executar a task", retries, last_exc>>]
    ELSE IF outs[attempt] \notin Raises
    THEN [raised |-> FALSE, out |-> outs[attempt], attempts |-> attempt,
          error |-> <<>>]
    ELSE retry_loop(outs, retries, attempt + 1, outs[attempt])

\* execute_task once a tool is chosen
execute_task(outs, retries) == retry_loop(outs, retries, 1, None)

-----------------------------------------------------------------------------
(* Fault injection helpers *)

Cnt(b) == IF b THEN 1 ELSE 0

Log(log, msg, ok) == IF ok THEN log \cup {<<msg, 0>>} ELSE log

\* A stage that stores the output of its capability over its own input
StoreInPlace(st, field, r) ==
    IF r.raised THEN st ELSE [st EXCEPT !.raw_data_json = r.out]

\* self.state.<field> = self.task_manager.execute_task(...): the assignment
\* happens only when execute_task returned
Store(st, field, r) ==
    IF r.raised THEN st ELSE [st EXCEPT ![field] = r.out]

\* _handle_error, lines 48-50: the message is stored before the log write
HandleError(st, step_name) == [st EXCEPT !.error_message = step_name]

\* Where control goes when super().kickoff() or _generate_final_report raises
KickoffRaised == IF caller = "service" THEN "except" ELSE "raised"

\* An exception that leaves a @listen method: the flow framework either lets it
\* leave kickoff or prints it and ends the listener chain.
ListenerEscapes == {KickoffRaised, "report"}

-----------------------------------------------------------------------------
(* tasks/pdf_worker.py: job metadata *)

\* The default output_path: title_prefix and the clock reading, in seconds
DefaultPath(ts) == <<"relatorio_buscapi", ts>>

NewMeta(job_id, output_path, sqid) ==
    [job_id |-> job_id, status |-> "pending", output_path |-> output_path,
     search_query_id |-> sqid, error |-> None]

NotFound ==
    [job_id |-> 0, status |-> None, output_path |-> <<>>,
     search_query_id |-> None, error |-> "not_found"]

\* A write that is dropped: the file is left as it was
persist_job_meta_dropped(fs, job_id, meta) == fs

\* _persist_job_meta: the file of job_id is overwritten with meta.  The values
\* of meta are strings, numbers and None, which json.dump and json.load hand
\* back unchanged.  A write that raises is taken to leave the file as it was.
persist_job_meta(fs, job_id, meta) ==
    [j \in DOMAIN fs \cup {job_id} |-> IF j = job_id THEN meta ELSE fs[j]]

IdleWorker == [job_id |-> 0, output_path |-> <<>>, extra |-> None, at |-> "idle"]

\* enqueue_pdf_job(results, search_query_id=sqid) when the clock reads ts;
\* persisted = FALSE when _persist_job_meta raises, which leaves the call
\* before _executor.submit
enqueue_pdf_job(sqid, ts, persisted) ==
    LET job_id == next_job + 1
        meta == NewMeta(job_id, DefaultPath(ts), sqid)
    IN  /\ next_job' = job_id
        /\ jobs' = [j \in DOMAIN jobs \cup {job_id} |->
                        IF j = job_id THEN meta ELSE jobs[j]]
        /\ files' = IF persisted THEN persist_job_meta(files, job_id, meta) ELSE files
        /\ queue' = IF persisted
                    THEN Append(queue, [job_id |-> job_id,
                                        output_path |-> meta.output_path,
                                        extra |-> sqid])
                    ELSE queue
        /\ submitted' = IF persisted
                        THEN [j \in DOMAIN submitted \cup {job_id} |->
                                IF j = job_id
                                THEN [output_path |-> meta.output_path,
                                      search_query_id |-> sqid]
                                ELSE submitted[j]]
                        ELSE submitted
        /\ UNCHANGED <<workers, render>>

-----------------------------------------------------------------------------
(* flows/ip_flow.py: IPAnalysisService.execute_analysis and kickoff *)

ErrorResult == [kind |-> "error", report |-> <<>>]

ReportResult(report) == [kind |-> "report", report |-> report]

\* execute_analysis, lines 319-326: the except branch and what it returns
ExceptBranch(id, status_fails, log_fails) ==
    /\ query_status' = IF status_fails \/ id # "q1" THEN query_status ELSE "error"
    /\ search_log' = Log(search_log, "erro_fatal", ~status_fails /\ ~log_fails)
    /\ pc' = IF status_fails \/ log_fails THEN "raised" ELSE "returned"
    /\ result' = IF status_fails \/ log_fails THEN result ELSE ErrorResult

\* execute_analysis up to the call of kickoff.  The row of the query holds
\* either an empty or a non-empty criteria.
execute_analysis ==
    /\ pc = "idle"
    /\ \E id \in {"q1", "q9"}, criteria \in {"", "c"},
          fconn, fget, fupd, fflow, fe1, fe2 \in BOOLEAN :
         LET found == id = "q1"
             early == fget \/ (found /\ (fupd \/ fflow))
         IN  /\ fget => ~fconn
             /\ fupd => (~fconn /\ ~fget /\ found)
             /\ fflow => (~fconn /\ ~fget /\ found /\ ~fupd)
             /\ fe1 => early
             /\ fe2 => (early /\ ~fe1)
             /\ faults' = faults + Cnt(fconn) + Cnt(fget) + Cnt(fupd) + Cnt(fflow)
                                 + Cnt(fe1) + Cnt(fe2)
             /\ faults' <= MaxFaults
             /\ caller' = "service"
             /\ IF fconn
                THEN /\ pc' = "raised"
                     /\ UNCHANGED <<state, result, query_status, search_log>>
                ELSE IF early
                THEN /\ ExceptBranch(id, fe1, fe2)
                     /\ UNCHANGED state
                ELSE IF ~found
                THEN /\ pc' = "returned"
                     /\ result' = ErrorResult
                     /\ UNCHANGED <<state, query_status, search_log>>
                ELSE /\ query_status' = "processing"
                     /\ state' = InitialState(id, criteria)
                     /\ pc' = "iniciar_pesquisa"
                     /\ UNCHANGED <<result, search_log>>
    /\ UNCHANGED <<invoked, failed, pdf_job_meta, clock, got>>
    /\ UNCHANGED job_vars
    /\ UNCHANGED tool_vars

\* kickoff(state) called on a flow directly, as scripts/smoke_pdf_enqueue.py does
kickoff ==
    /\ pc = "idle"
    /\ \E sqid \in {None, "q1"}, criteria \in {"", "c"} :
         state' \in {InitialState(sqid, criteria), SmokeState(sqid, criteria)}
    /\ caller' = "direct"
    /\ pc' = "iniciar_pesquisa"
    /\ UNCHANGED <<result, query_status, search_log, faults, invoked, failed,
                   pdf_job_meta, clock, got>>
    /\ UNCHANGED job_vars
    /\ UNCHANGED tool_vars

execute_analysis_except ==
    /\ pc = "except"
    /\ \E fe1, fe2 \in BOOLEAN :
         /\ fe2 => ~fe1
         /\ faults' = faults + Cnt(fe1) + Cnt(fe2)
         /\ faults' <= MaxFaults
         /\ ExceptBranch(state.search_query_id, fe1, fe2)
    /\ UNCHANGED <<caller, state, invoked, failed, pdf_job_meta, clock, got>>
    /\ UNCHANGED job_vars
    /\ UNCHANGED tool_vars

-----------------------------------------------------------------------------
(* flows/ip_flow.py: the stages of PropriedadeIntelectualFlow *)

iniciar_pesquisa ==
    /\ pc = "iniciar_pesquisa"
    /\ \E f \in BOOLEAN :
         LET invalid == state.search_criteria = "" \/ state.search_query_id = None
             logs == ~invalid \/ Truthy(state.search_query_id)
         IN  /\ f => logs
             /\ faults' = faults + Cnt(f)
             /\ faults' <= MaxFaults
             /\ state' = IF invalid THEN HandleError(state, "iniciar_pesquisa") ELSE state
             /\ search_log' =
                  IF logs
                  THEN Log(search_log,
                           IF invalid THEN "erro:iniciar_pesquisa" ELSE "inicio", ~f)
                  ELSE search_log
             /\ pc' = IF f THEN KickoffRaised ELSE "coletar_dados"
    /\ UNCHANGED <<caller, result, query_status, invoked, failed, pdf_job_meta,
                   clock, got>>
    /\ UNCHANGED job_vars
    /\ UNCHANGED tool_vars

coletar_dados ==
    /\ pc = "coletar_dados"
    /\ IF state.error_message # None
       THEN /\ pc' = "classificar_dados"
            /\ UNCHANGED <<state, search_log, faults, invoked, failed>>
       ELSE \E outs \in [1..Attempts(CollectRetries) -> Outcomes], f93, fh \in BOOLEAN :
              LET r == execute_task(outs, CollectRetries)
                  handler == r.raised \/ f93
                  hlog == handler /\ Truthy(state.search_query_id)
              IN  /\ f93 => ~r.raised
                  /\ fh => hlog
                  /\ faults' = faults + Cnt(f93) + Cnt(fh)
                  /\ faults' <= MaxFaults
                  /\ state' = [Store(state, "raw_data_json", r) EXCEPT
                        !.error_message = IF handler THEN "coletar_dados" ELSE @]
                  /\ search_log' =
                       Log(Log(search_log, "coleta_concluida", ~r.raised /\ ~f93),
                           "erro:coletar_dados", hlog /\ ~fh)
                  /\ invoked' = invoked \cup {"coletar_dados"}
                  /\ failed' = IF r.raised THEN failed \cup {"coletar_dados"} ELSE failed
                  /\ pc' \in IF hlog /\ fh THEN ListenerEscapes ELSE {"classificar_dados"}
    /\ UNCHANGED <<caller, result, query_status, pdf_job_meta, clock, got>>
    /\ UNCHANGED job_vars
    /\ UNCHANGED tool_vars

classificar_dados ==
    /\ pc = "classificar_dados"
    /\ IF ~Truthy(state.raw_data_json)
       THEN /\ pc' = "analisar_dados"
            /\ UNCHANGED <<state, search_log, faults, invoked, failed>>
       ELSE \E outs \in [1..Attempts(ClassifyRetries) -> Outcomes],
               f110, f118, f125 \in BOOLEAN :
              LET r == execute_task(outs, ClassifyRetries)
                  sq == Truthy(state.search_query_id)
                  handler == r.raised \/ f118
              IN  /\ f110 => (r.raised /\ sq)
                  /\ f118 => (~r.raised /\ sq)
                  /\ f125 => (handler /\ sq)
                  /\ faults' = faults + Cnt(f110) + Cnt(f118) + Cnt(f125)
                  /\ faults' <= MaxFaults
                  /\ state' = Store(state, "classified_data_json", r)
                  /\ search_log' =
                       Log(Log(Log(search_log, "erro_classificacao",
                                   r.raised /\ sq /\ ~f110),
                               "classificados", ~r.raised /\ sq /\ ~f118),
                           "erro_classificacao", handler /\ sq /\ ~f125)
                  /\ invoked' = invoked \cup {"classificar_dados"}
                  /\ failed' = IF r.raised THEN failed \cup {"classificar_dados"} ELSE failed
                  /\ pc' \in IF f125 THEN ListenerEscapes ELSE {"analisar_dados"}
    /\ UNCHANGED <<caller, result, query_status, pdf_job_meta, clock, got>>
    /\ UNCHANGED job_vars
    /\ UNCHANGED tool_vars

analisar_dados ==
    /\ pc = "analisar_dados"
    /\ IF ~Truthy(state.classified_data_json)
       THEN /\ pc' = "gerar_visualizacoes"
            /\ UNCHANGED <<state, search_log, faults, invoked, failed>>
       ELSE \E outs \in [1..Attempts(AnalysisRetries) -> Outcomes], f152, fh \in BOOLEAN :
              LET r == execute_task(outs, AnalysisRetries)
                  handler == r.raised \/ f152
                  hlog == handler /\ Truthy(state.search_query_id)
              IN  /\ f152 => ~r.raised
                  /\ fh => hlog
                  /\ faults' = faults + Cnt(f152) + Cnt(fh)
                  /\ faults' <= MaxFaults
                  /\ state' = [Store(state, "analysis_results_json", r) EXCEPT
                        !.error_message = IF handler THEN "analisar_dados" ELSE @]
                  /\ search_log' =
                       Log(Log(search_log, "analise_concluida", ~r.raised /\ ~f152),
                           "erro:analisar_dados", hlog /\ ~fh)
                  /\ invoked' = invoked \cup {"analisar_dados"}
                  /\ failed' = IF r.raised THEN failed \cup {"analisar_dados"} ELSE failed
                  /\ pc' \in IF hlog /\ fh THEN ListenerEscapes ELSE {"gerar_visualizacoes"}
    /\ UNCHANGED <<caller, result, query_status, pdf_job_meta, clock, got>>
    /\ UNCHANGED job_vars
    /\ UNCHANGED tool_vars

gerar_visualizacoes ==
    /\ pc = "gerar_visualizacoes"
    /\ IF ~Truthy(state.analysis_results_json)
       THEN /\ pc' = "report"
            /\ UNCHANGED <<state, search_log, faults, invoked, failed>>
       ELSE \E outs \in [1..Attempts(VisualizationRetries) -> Outcomes],
               f174, f182, fh \in BOOLEAN :
              LET r == execute_task(outs, VisualizationRetries)
                  sq == Truthy(state.search_query_id)
                  handled == r.raised /\ ~f182
              IN  /\ f174 => (r.raised /\ sq)
                  /\ f182 => (r.raised /\ sq)
                  /\ fh => (handled /\ sq)
                  /\ faults' = faults + Cnt(f174) + Cnt(f182) + Cnt(fh)
                  /\ faults' <= MaxFaults
                  /\ state' = [Store(state, "visualizations_json", r) EXCEPT
                        !.error_message = IF handled THEN "gerar_visualizacoes" ELSE @]
                  /\ search_log' =
                       Log(Log(Log(search_log, "erro_visualizacao",
                                   r.raised /\ sq /\ ~f174),
                               "erro_visualizacao", r.raised /\ sq /\ ~f182),
                           "erro:gerar_visualizacoes", handled /\ sq /\ ~fh)
                  /\ invoked' = invoked \cup {"gerar_visualizacoes"}
                  /\ failed' = IF r.raised THEN failed \cup {"gerar_visualizacoes"}
                               ELSE failed
                  /\ pc' \in IF f182 \/ fh THEN ListenerEscapes ELSE {"report"}
    /\ UNCHANGED <<caller, result, query_status, pdf_job_meta, clock, got>>
    /\ UNCHANGED job_vars
    /\ UNCHANGED tool_vars

\* The final_report dict of _generate_final_report, lines 199-210
FinalReport(st, raw_data, classified_data, analysis_results, visualizations) ==
    [success |-> TRUE,
     flow_id |-> st.search_query_id,
     search_criteria |-> st.search_criteria,
     data_collected |-> raw_data.len,
     classified_data |-> classified_data,
     analysis_results |-> analysis_results,
     visualizations |-> visualizations,
     llm_model |-> None,
     insights |-> IF analysis_results.insights THEN "insights"
                  ELSE "Nenhum insight gerado."]

\* Without the try around enqueue_pdf_job (lines 221-245) its exception would
\* reach the except of line 249 like any other
OuterExceptUnguarded(assembled, fp, f245) == ~assembled \/ fp \/ f245

\* Whether control reaches the except of line 249: assembling the report
\* raised, or enqueue_pdf_job raised (fp) and the log write of line 245, in the
\* except that caught it, raised in turn (f245)
OuterExcept(assembled, fp, f245) == ~assembled \/ f245

\* _generate_final_report up to the return of enqueue_pdf_job (lines 185-225),
\* and all of it, with the rest of kickoff, when no job was enqueued
generate_final_report ==
    /\ pc = "report"
    /\ \E fs, fl, fp, f245, f251, fh \in BOOLEAN :
         LET sq == Truthy(state.search_query_id)
             classified_data == safe_json_load(state.classified_data_json, EmptyList)
             analysis_results == safe_json_load(state.analysis_results_json, EmptyDict)
             visualizations == safe_json_load(state.visualizations_json, EmptyDict)
             raw_data == safe_json_load(state.raw_data_json, EmptyList)
             assembled == HasLen(raw_data) /\ HasGet(analysis_results)
             st1 == IF assembled
                    THEN [state EXCEPT !.final_report =
                            FinalReport(state, raw_data, classified_data,
                                        analysis_results, visualizations)]
                    ELSE state
             outer == OuterExcept(assembled, fp, f245)
             handled == outer /\ ~f251
             raised == f251 \/ fh
             enqueued == assembled /\ ~fp
         IN  /\ fs => (assembled /\ sq)
             /\ fl => (assembled /\ sq /\ ~fs)
             /\ fp => assembled
             /\ f245 => (fp /\ sq)
             /\ f251 => (outer /\ sq)
             /\ fh => (handled /\ sq)
             /\ faults' = faults + Cnt(fs) + Cnt(fl) + Cnt(fp) + Cnt(f245)
                                 + Cnt(f251) + Cnt(fh)
             /\ faults' <= MaxFaults
             /\ state' = IF handled THEN HandleError(st1, "generate_final_report") ELSE st1
             /\ query_status' = IF assembled /\ sq /\ ~fs THEN "completed" ELSE query_status
             /\ search_log' =
                  Log(Log(Log(Log(search_log,
                                  "fluxo_concluido", assembled /\ sq /\ ~fs /\ ~fl),
                              "falha_enfileirar", fp /\ sq /\ ~f245),
                          "erro_relatorio", outer /\ sq /\ ~f251),
                      "erro:generate_final_report", handled /\ sq /\ ~fh)
             /\ IF assembled
                THEN enqueue_pdf_job(state.search_query_id, clock, ~fp)
                ELSE UNCHANGED job_vars
             /\ pdf_job_meta' = IF enqueued THEN next_job + 1 ELSE pdf_job_meta
             /\ pc' = IF raised THEN KickoffRaised
                      ELSE IF enqueued THEN "attach" ELSE "returned"
             /\ result' = IF ~raised /\ ~enqueued
                          THEN ReportResult(state'.final_report) ELSE result
    /\ UNCHANGED <<caller, invoked, failed, clock, got>>
    /\ UNCHANGED tool_vars

\* _generate_final_report from line 226 and the rest of kickoff: the report
\* takes job_id, status and output_path from the dict enqueue_pdf_job returned,
\* which is the entry of _jobs itself
attach_pdf_job ==
    /\ pc = "attach"
    /\ \E f233, f245, f251, fh \in BOOLEAN :
         LET sq == Truthy(state.search_query_id)
             meta == jobs[pdf_job_meta]
             st1 == [state EXCEPT !.final_report =
                        [pdf_job |-> [job_id |-> meta.job_id,
                                      status |-> meta.status,
                                      output_path |-> meta.output_path]] @@ @]
             handled == f245 /\ ~f251
             raised == f251 \/ fh
         IN  /\ f233 => sq
             /\ f245 => f233
             /\ f251 => f245
             /\ fh => handled
             /\ faults' = faults + Cnt(f233) + Cnt(f245) + Cnt(f251) + Cnt(fh)
             /\ faults' <= MaxFaults
             /\ state' = IF handled THEN HandleError(st1, "generate_final_report") ELSE st1
             /\ search_log' =
                  Log(Log(Log(Log(search_log,
                                  "pdf_enfileirado", sq /\ ~f233),
                              "falha_enfileirar", f233 /\ ~f245),
                          "erro_relatorio", f245 /\ ~f251),
                      "erro:generate_final_report", handled /\ ~fh)
             /\ pc' = IF raised THEN KickoffRaised ELSE "returned"
             /\ result' = IF raised THEN result ELSE ReportResult(state'.final_report)
    /\ UNCHANGED <<caller, query_status, invoked, failed, pdf_job_meta, clock, got>>
    /\ UNCHANGED job_vars
    /\ UNCHANGED tool_vars

-----------------------------------------------------------------------------
(* tasks/pdf_worker.py: _run_pdf_job on a thread of _executor *)

\* A lookup that takes the entry enqueued last, whatever the job
MetaLookupLatest(job_id) == jobs[next_job]

\* meta = _jobs.get(job_id, {}): the entry of the index, not a copy
MetaLookup(job_id) == jobs[job_id]

\* An except branch that swallows the exception and records nothing
RenderedMetaSilent(meta, outcome, output_path) ==
    CASE outcome = "path" ->
           [meta EXCEPT !.status = "completed", !.output_path = output_path]
      [] outcome = "error" ->
           [meta EXCEPT !.status = "failed", !.error = "Falha ao gerar PDF"]
      [] OTHER -> meta

\* Lines 96-120: what the outcome of the render writes into meta.  A rendered
\* PDF answers {"path": output_path}, the path the job was given.
RenderedMeta(meta, outcome, output_path) ==
    CASE outcome = "path" ->
           [meta EXCEPT !.status = "completed", !.output_path = output_path]
      [] outcome = "error" ->
           [meta EXCEPT !.status = "failed", !.error = "Falha ao gerar PDF"]
      [] OTHER ->
           [meta EXCEPT !.status = "failed", !.error = "exception"]

\* A finally block that also marks the job completed
FinalMetaCompleted(meta, extra) ==
    [meta EXCEPT !.search_query_id = extra, !.status = "completed"]

\* Lines 122-123: meta.update(extra_meta)
FinalMeta(meta, extra) == [meta EXCEPT !.search_query_id = extra]

\* Lines 34-37: a free thread takes the oldest work item (the threads are
\* alike: the free thread of lowest number stands for any of them)
pickup(w) ==
    /\ workers[w].at = "idle"
    /\ \A v \in 1..MaxWorkers : v < w => workers[v].at # "idle"
    /\ queue # <<>>
    /\ \E fp \in BOOLEAN :
         LET task == Head(queue)
             meta == [MetaLookup(task.job_id) EXCEPT !.status = "processing"]
         IN  /\ faults' = faults + Cnt(fp)
             /\ faults' <= MaxFaults
             /\ jobs' = [jobs EXCEPT ![task.job_id] = meta]
             /\ files' = IF fp THEN files
                         ELSE persist_job_meta(files, task.job_id, meta)
             /\ workers' = [workers EXCEPT ![w] =
                              IF fp THEN IdleWorker
                              ELSE [job_id |-> task.job_id,
                                    output_path |-> task.output_path,
                                    extra |-> task.extra, at |-> "picked"]]
             /\ queue' = Tail(queue)
    /\ UNCHANGED <<pc, caller, state, result, query_status, search_log, invoked,
                   failed, pdf_job_meta, next_job, clock, submitted, render, got>>
    /\ UNCHANGED tool_vars

\* Lines 39-97, 108-109, 119-120: the render and the update of meta in memory.
\* The audit-log write of lines 99-107 and 110-117 follows as a step of its own
\* when the job carries a search_query_id and the render answered.
run_render(w) ==
    /\ workers[w].at = "picked"
    /\ \E outcome \in {"path", "error", "exception"} :
         LET me == workers[w]
             logs == outcome # "exception" /\ Truthy(me.extra)
         IN  /\ jobs' = [jobs EXCEPT ![me.job_id] =
                            RenderedMeta(@, outcome, me.output_path)]
             /\ render' = [j \in DOMAIN render \cup {me.job_id} |->
                             IF j = me.job_id THEN outcome ELSE render[j]]
             /\ workers' = [workers EXCEPT ![w].at =
                              IF logs THEN "updated" ELSE "rendered"]
    /\ UNCHANGED <<pc, caller, state, result, query_status, search_log, faults,
                   invoked, failed, pdf_job_meta, files, queue, next_job, clock,
                   submitted, got>>
    /\ UNCHANGED tool_vars

\* Lines 99-107 and 110-117: BuscapiDB().insert_search_log(sqid, ...), whose
\* failure is swallowed
log_render(w) ==
    /\ workers[w].at = "updated"
    /\ \E flog \in BOOLEAN :
         LET me == workers[w]
         IN  /\ faults' = faults + Cnt(flog)
             /\ faults' <= MaxFaults
             /\ search_log' =
                  IF flog THEN search_log
                  ELSE search_log \cup
                         {<<IF render[me.job_id] = "path" THEN "pdf_gerado"
                            ELSE "pdf_falha", me.job_id>>}
             /\ workers' = [workers EXCEPT ![w].at = "rendered"]
    /\ UNCHANGED <<pc, caller, state, result, query_status, invoked, failed,
                   pdf_job_meta, jobs, files, queue, next_job, clock, submitted,
                   render, got>>
    /\ UNCHANGED tool_vars

\* Lines 121-125: the finally block
finish(w) ==
    /\ workers[w].at = "rendered"
    /\ \E fp \in BOOLEAN :
         LET me == workers[w]
             meta == FinalMeta(jobs[me.job_id], me.extra)
         IN  /\ faults' = faults + Cnt(fp)
             /\ faults' <= MaxFaults
             /\ jobs' = [jobs EXCEPT ![me.job_id] = meta]
             /\ files' = IF fp THEN files
                         ELSE persist_job_meta(files, me.job_id, meta)
             /\ workers' = [workers EXCEPT ![w] = IdleWorker]
    /\ UNCHANGED <<pc, caller, state, result, query_status, search_log, invoked,
                   failed, pdf_job_meta, queue, next_job, clock, submitted, render, got>>
    /\ UNCHANGED tool_vars

-----------------------------------------------------------------------------
(* tasks/pdf_worker.py: the callers of the job queue *)

\* app_st3.py, line 424: a job enqueued from the UI, in the second in which
\* the clock was last read or in a later one.  Only the differences between
\* readings matter: the first job is enqueued at the initial reading.
EnqueueUpTo(limit) ==
    /\ next_job < limit
    /\ \E sqid \in {None, "q1"}, ts \in {clock, clock + 1}, fp \in BOOLEAN :
         /\ next_job = 0 => ts = clock
         /\ faults' = faults + Cnt(fp)
         /\ faults' <= MaxFaults
         /\ clock' = ts
         /\ enqueue_pdf_job(sqid, ts, ~fp)
    /\ UNCHANGED <<pc, caller, state, result, query_status, search_log, invoked,
                   failed, pdf_job_meta, got>>
    /\ UNCHANGED tool_vars

enqueue == EnqueueUpTo(MaxJobs)

\* The same caller with one job more than the pool has threads
enqueue_burst == EnqueueUpTo(MaxBurst)

\* A lookup that knows the index only
GetJobMetaIndexOnly(job_id) ==
    IF job_id \in DOMAIN jobs THEN jobs[job_id] ELSE NotFound

\* get_job_meta(job_id)
GetJobMeta(job_id) ==
    IF job_id \in DOMAIN jobs THEN jobs[job_id]
    ELSE IF job_id \in DOMAIN files THEN files[job_id]
    ELSE NotFound

NoAnswer == [job_id |-> 0, meta |-> NotFound]

\* app_st3.py, line 437: the UI asks for the state of a job
get_job_meta ==
    /\ \E job_id \in 1..(next_job + 1) :
         got' = [job_id |-> job_id, meta |-> GetJobMeta(job_id)]
    /\ UNCHANGED <<pc, caller, state, result, query_status, search_log, faults,
                   invoked, failed, pdf_job_meta, clock>>
    /\ UNCHANGED job_vars
    /\ UNCHANGED tool_vars

\* The process ends and is started again: the module's globals are created
\* anew (lines 20-24), the files under static/pdf_jobs stay
restart ==
    /\ next_job > 0
    /\ jobs' = <<>>
    /\ queue' = <<>>
    /\ workers' = [w \in 1..MaxWorkers |-> IdleWorker]
    /\ submitted' = <<>>
    /\ render' = <<>>
    /\ UNCHANGED <<pc, caller, state, result, query_status, search_log, faults,
                   invoked, failed, pdf_job_meta, files, next_job, clock, got>>
    /\ UNCHANGED tool_vars

\* app_st3.py, lines 438-444: the UI has shown the answer
answer_shown ==
    /\ got # NoAnswer
    /\ got' = NoAnswer
    /\ UNCHANGED <<pc, caller, state, result, query_status, search_log, faults,
                   invoked, failed, pdf_job_meta, clock>>
    /\ UNCHANGED job_vars
    /\ UNCHANGED tool_vars

-----------------------------------------------------------------------------
(* database/persist_dados.py: BuscapiDB.insert_search_result_raw *)

\* The callers hold MaxRecs dicts: the first two are equal, the others differ
\* from them
RecordContent(r) == IF r <= 2 THEN "a" ELSE "b"

\* The dict a caller holds: its content and the number of times a _hash key
\* was written into it
RawDict(r) == [content |-> RecordContent(r), depth |-> records[r]]

\* Lines 39-41: sha256 over json.dumps(raw_data, sort_keys=True), the _hash key
\* included when the dict has one; one value per dict
item_hash(raw_data) == <<raw_data.content, raw_data.depth>>

\* Line 44: raw_data["_hash"] = item_hash, on the caller's dict
WithHash(raw_data) == [raw_data EXCEPT !.depth = @ + 1]

\* The _hash key of a stored raw_json
StoredHash(raw_json) == <<raw_json.content, raw_json.depth - 1>>

\* Lines 50-54: the ids of the rows of the run whose raw_json holds the hash
Existing(rows, sqid, h) ==
    {i \in 1..Len(rows) :
        rows[i].search_query_id = sqid /\ StoredHash(rows[i].raw_json) = h}

IdleConn == [at |-> "idle", search_query_id |-> None, rec |-> 0, raw_json |-> <<>>]

CallsInProgress == {k \in 1..MaxConns : conns[k].at # "idle"}

Returned(sqid, content, id) ==
    Append(raw_ids, [search_query_id |-> sqid, content |-> content, id |-> id])

\* insert_search_result_raw(sqid, source, raw_data) on connection k, lines
\* 37-58: the hash, the _hash key written into the caller's dict, the SELECT.
\* An exception returns -1 (lines 69-72).
insert_search_result_raw(k) ==
    /\ conns[k].at = "idle"
    /\ Len(raw_ids) + Cardinality(CallsInProgress) < MaxCalls
    /\ \E sqid \in {"q1", "q2"}, r \in 1..MaxRecs, f \in BOOLEAN :
         LET raw_data == RawDict(r)
             h == item_hash(raw_data)
             existing == Existing(raw_rows, sqid, h)
         IN  /\ faults' = faults + Cnt(f)
             /\ faults' <= MaxFaults
             /\ records' = [records EXCEPT ![r] = @ + 1]
             /\ IF f
                THEN /\ raw_ids' = Returned(sqid, raw_data.content, -1)
                     /\ UNCHANGED conns
                ELSE IF existing # {}
                THEN /\ \E id \in existing :
                          raw_ids' = Returned(sqid, raw_data.content, id)
                     /\ UNCHANGED conns
                ELSE /\ conns' = [conns EXCEPT ![k] =
                                   [at |-> "selected", search_query_id |-> sqid,
                                    rec |-> r, raw_json |-> WithHash(raw_data)]]
                     /\ UNCHANGED raw_ids
    /\ UNCHANGED <<raw_rows, collector_out, task_call, search_log, clock, got>>
    /\ UNCHANGED flow_vars
    /\ UNCHANGED job_vars

\* Lines 61-67: the INSERT of a call whose SELECT found nothing.  Whether the
\* table refuses a second row of the same run and hash is decided outside the
\* repository: a refused INSERT raises and the call returns -1.
insert_row(k) ==
    /\ conns[k].at = "selected"
    /\ \E f, refused \in BOOLEAN :
         LET me == conns[k]
             dup == Existing(raw_rows, me.search_query_id,
                             StoredHash(me.raw_json)) # {}
             fails == f \/ refused
         IN  /\ refused => (dup /\ ~f)
             /\ faults' = faults + Cnt(f)
             /\ faults' <= MaxFaults
             /\ raw_rows' = IF fails THEN raw_rows
                            ELSE Append(raw_rows,
                                        [search_query_id |-> me.search_query_id,
                                         raw_json |-> me.raw_json])
             /\ raw_ids' = Returned(me.search_query_id, me.raw_json.content,
                                     IF fails THEN -1 ELSE Len(raw_rows) + 1)
             /\ conns' = [conns EXCEPT ![k] = IdleConn]
    /\ UNCHANGED <<records, collector_out, task_call, search_log, clock, got>>
    /\ UNCHANGED flow_vars
    /\ UNCHANGED job_vars

-----------------------------------------------------------------------------
(* tools/custom_tools.py: IPDataCollectorTool *)

RECURSIVE persist_many(_, _, _, _, _)
\* _persist_many over the items from position i on: each item is copied
\* (copy.deepcopy, so it carries no _hash key), inserted, and appended to the
\* results whatever id the insert returned.  The insert of item number bad
\* raises inside insert_search_result_raw, which then returns -1.
persist_many(rows, sqid, items, i, bad) ==
    IF i > Len(items) THEN [rows |-> rows, results |-> 0]
    ELSE LET cloned == [content |-> items[i], depth |-> 0]
             stored == i # bad /\ Existing(rows, sqid, item_hash(cloned)) = {}
             rows1 == IF stored
                      THEN Append(rows, [search_query_id |-> sqid,
                                         raw_json |-> WithHash(cloned)])
                      ELSE rows
             rest == persist_many(rows1, sqid, items, i + 1, bad)
         IN  [rows |-> rest.rows, results |-> rest.results + 1]

\* Lines 479-482: json.dumps of the results, or of a one-item list holding a
\* message when there are none; as the flow decodes it
CollectorOutput(results) ==
    [kind |-> "list", len |-> IF results = 0 THEN 1 ELSE results,
     insights |-> FALSE]

\* No run of the collector yet
NoOutput == [search_query_id |-> None, raw_data |-> EmptyList]

Items == UNION {[1..n -> {"a", "b"}] : n \in 0..MaxItems}

RowsOf(rows, sqid) == {i \in 1..Len(rows) : rows[i].search_query_id = sqid}

\* IPDataCollectorTool._run for the run sqid, on a connection of its own
collect ==
    /\ collector_out = NoOutput
    /\ \E sqid \in {"q1", "q2"}, items \in Items :
         \E bad \in 0..Len(items) :
            LET done == persist_many(raw_rows, sqid, items, 1, bad)
            IN  /\ faults' = faults + Cnt(bad # 0)
                /\ faults' <= MaxFaults
                /\ raw_rows' = done.rows
                /\ collector_out' = [search_query_id |-> sqid,
                                     raw_data |-> CollectorOutput(done.results)]
    /\ UNCHANGED <<records, conns, raw_ids, task_call, search_log, clock, got>>
    /\ UNCHANGED flow_vars
    /\ UNCHANGED job_vars

-----------------------------------------------------------------------------
(* tasks/ip_tasks.py: IPTaskManager.execute_task, the choice of the tool *)

\* Tool classes of tools/custom_tools.py; every tool is a BaseTool
ToolClasses == {"DataAnalysisTool", "VisualizationTool"}

ToolNames == {None, "Data Analysis Tool", "Visualization Tool"}

Tools == [cls : ToolClasses, name : ToolNames]

\* agent.tools: a list of at most MaxTools tools
ToolLists == UNION {[1..n -> Tools] : n \in 0..MaxTools}

\* preferred_tool_cls: none, the base class, a class some tool may have, or
\* one no tool of the list has
PreferredClasses == {None, "BaseTool", "PDFReportTool"} \cup ToolClasses

PreferredNames == {None, "data analysis tool", "VISUALIZATIONTOOL", "Other"}

\* str.lower() on the strings above
Lower(str) ==
    CASE str = "DataAnalysisTool" -> "dataanalysistool"
      [] str = "VisualizationTool" -> "visualizationtool"
      [] str = "VISUALIZATIONTOOL" -> "visualizationtool"
      [] str = "Data Analysis Tool" -> "data analysis tool"
      [] str = "Visualization Tool" -> "visualization tool"
      [] str = "Other" -> "other"
      [] OTHER -> str

\* isinstance(t, cls)
IsInstance(t, cls) == cls = t.cls \/ cls = "BaseTool"

\* A comparison of names that minds the case
NameMatchesExact(t, preferred_tool_name) ==
    \/ Truthy(t.name) /\ t.name = preferred_tool_name
    \/ t.cls = preferred_tool_name

\* Lines 167-173: the tool's name or the name of its class, compared in lower
\* case
NameMatches(t, preferred_tool_name) ==
    \/ Truthy(t.name) /\ Lower(t.name) = Lower(preferred_tool_name)
    \/ Lower(t.cls) = Lower(preferred_tool_name)

RECURSIVE by_class(_, _, _)
\* Lines 159-162: the loop from position i on; 0 stands for chosen = None
by_class(tools, preferred_tool_cls, i) ==
    IF i > Len(tools) THEN 0
    ELSE IF IsInstance(tools[i], preferred_tool_cls) THEN i
    ELSE by_class(tools, preferred_tool_cls, i + 1)

RECURSIVE by_name(_, _, _)
\* Lines 166-173: the loop from position i on
by_name(tools, preferred_tool_name, i) ==
    IF i > Len(tools) THEN 0
    ELSE IF NameMatches(tools[i], preferred_tool_name) THEN i
    ELSE by_name(tools, preferred_tool_name, i + 1)

\* Lines 154-177: the position in tools of the chosen tool, 0 when none
chosen(tools, preferred_tool_cls, preferred_tool_name) ==
    LET c1 == IF preferred_tool_cls # None
              THEN by_class(tools, preferred_tool_cls, 1) ELSE 0
        c2 == IF c1 = 0 /\ Truthy(preferred_tool_name)
              THEN by_name(tools, preferred_tool_name, 1) ELSE c1
    IN  IF c2 = 0 /\ tools # <<>> THEN 1 ELSE c2

\* Lines 152 and 180: the errors raised before any call of _run
NoAgentError ==
    [raised |-> TRUE, out |-> None, attempts |-> 0,
     error |-> <<"Task nao possui agent associado">>]

NoToolError ==
    [raised |-> TRUE, out |-> None, attempts |-> 0,
     error |-> <<"Agent nao possui ferramenta executavel">>]

\* No call of execute_task in progress
NoCall ==
    [at |-> "idle", agent |-> FALSE, tools |-> <<>>, cls |-> None, name |-> None,
     retries |-> 0, outs |-> <<>>, chosen |-> 0, res |-> NoAgentError]

\* execute_task(task, input_str, preferred_tool_cls, preferred_tool_name,
\* retries), lines 143-198, for a task with or without an agent
call_execute_task ==
    /\ task_call = NoCall
    /\ \E agent \in BOOLEAN, tools \in ToolLists, cls \in PreferredClasses,
          name \in PreferredNames, retries \in -1..MaxRetries :
         \E outs \in [1..Attempts(retries) -> {"[]"} \cup Raises] :
            LET c == IF agent THEN chosen(tools, cls, name) ELSE 0
                res == IF ~agent THEN NoAgentError
                       ELSE IF c = 0 THEN NoToolError
                       ELSE execute_task(outs, retries)
            IN  task_call' = [at |-> "done", agent |-> agent, tools |-> tools,
                              cls |-> cls, name |-> name, retries |-> retries,
                              outs |-> outs, chosen |-> c, res |-> res]
    /\ UNCHANGED <<raw_rows, records, conns, raw_ids, collector_out, search_log,
                   faults, clock, got>>
    /\ UNCHANGED flow_vars
    /\ UNCHANGED job_vars

\* The caller has taken the result or the exception
task_returns ==
    /\ task_call # NoCall
    /\ task_call' = NoCall
    /\ UNCHANGED <<raw_rows, records, conns, raw_ids, collector_out, search_log,
                   faults, clock, got>>
    /\ UNCHANGED flow_vars
    /\ UNCHANGED job_vars

-----------------------------------------------------------------------------
(* Specifications *)

Init ==
    /\ pc = "idle"
    /\ caller = None
    /\ state = InitialState(None, "")
    /\ result = [kind |-> None, report |-> <<>>]
    /\ query_status = "pending"
    /\ search_log = {}
    /\ faults = 0
    /\ invoked = {}
    /\ failed = {}
    /\ pdf_job_meta = 0
    /\ jobs = <<>>
    /\ files = <<>>
    /\ queue = <<>>
    /\ workers = [w \in 1..MaxWorkers |-> IdleWorker]
    /\ next_job = 0
    /\ clock = 0
    /\ submitted = <<>>
    /\ render = <<>>
    /\ got = NoAnswer
    /\ raw_rows = <<>>
    /\ records = [r \in 1..MaxRecs |-> 0]
    /\ conns = [k \in 1..MaxConns |-> IdleConn]
    /\ raw_ids = <<>>
    /\ collector_out = NoOutput
    /\ task_call = NoCall

Work ==
    \E w \in 1..MaxWorkers :
        pickup(w) \/ run_render(w) \/ log_render(w) \/ finish(w)

\* One run of the pipeline, with the job it enqueues
FlowNext ==
    \/ execute_analysis
    \/ kickoff
    \/ iniciar_pesquisa
    \/ coletar_dados
    \/ classificar_dados
    \/ analisar_dados
    \/ gerar_visualizacoes
    \/ generate_final_report
    \/ attach_pdf_job
    \/ execute_analysis_except
    \/ Work

FlowSpec == Init /\ [][FlowNext]_vars

\* The job queue in one process
JobsNext ==
    \/ enqueue
    \/ Work

JobsSpec == Init /\ [][JobsNext]_vars

\* A burst of jobs in one process
BurstNext ==
    \/ enqueue_burst
    \/ Work

BurstSpec == Init /\ [][BurstNext]_vars

\* The job queue, its readers, and restarts of the process.  An answer of
\* get_job_meta is looked at in the state it was computed in.
LookupNext ==
    \/ get_job_meta
    \/ answer_shown
    \/ got = NoAnswer /\ enqueue
    \/ got = NoAnswer /\ Work
    \/ got = NoAnswer /\ restart

LookupSpec == Init /\ [][LookupNext]_vars

\* The table search_result_raw and the connections that insert into it
RawNext ==
    \/ \E k \in 1..MaxConns : insert_search_result_raw(k) \/ insert_row(k)
    \/ collect

RawSpec == Init /\ [][RawNext]_vars

\* Calls of execute_task
TaskNext ==
    \/ call_execute_task
    \/ task_returns

TaskSpec == Init /\ [][TaskNext]_vars

\* The job queue in one process, its threads scheduled fairly: a thread that
\* can take a work item, render, write its audit log or run its finally block
\* eventually does
LiveSpec ==
    /\ JobsSpec
    /\ \A w \in 1..MaxWorkers :
         /\ WF_vars(pickup(w)) /\ WF_vars(run_render(w))
         /\ WF_vars(log_render(w)) /\ WF_vars(finish(w))

-----------------------------------------------------------------------------
(* Properties *)

Terminal(status) == status \in {"completed", "failed"}

\* kickoff has returned state.final_report to its caller
KickoffReturned == pc = "returned" /\ result.kind = "report"

\* No database or file operation has failed
NoFaults == faults = 0

\* C1: whatever the stages did and whatever the shapes of the payloads, the
\* report kickoff returns is non-empty, holds search_criteria and
\* data_collected, and data_collected is 0 when nothing was collected (stated
\* for the runs in which no database or file operation failed).
C1_ReportAlwaysProduced ==
    (KickoffReturned /\ NoFaults) =>
        /\ {"search_criteria", "data_collected"} \subseteq DOMAIN result.report
        /\ ~Truthy(state.raw_data_json) => result.report.data_collected = 0

\* C2: once error_message is set, no later step of the run invokes a
\* capability or changes classified_data_json, analysis_results_json or
\* visualizations_json.
C2_ErrorShortCircuit ==
    [][state.error_message # None =>
         /\ invoked' = invoked
         /\ state'.classified_data_json = state.classified_data_json
         /\ state'.analysis_results_json = state.analysis_results_json
         /\ state'.visualizations_json = state.visualizations_json]_vars

\* C3: execute_analysis never raises to its caller.
C3_ExecuteAnalysisNeverRaises == ~(caller = "service" /\ pc = "raised")

\* C4: when classification raised on every attempt after a successful
\* collection that returned a list, the run ends with error_message naming the
\* classification stage, the report carries the data_collected count of the
\* collection, and a render job was submitted (stated for the runs in which no
\* database or file operation failed).
C4_ClassificationFailureReported ==
    (/\ KickoffReturned
     /\ NoFaults
     /\ "classificar_dados" \in failed
     /\ "coletar_dados" \in invoked \ failed
     /\ json_loads(state.raw_data_json).kind = "list") =>
        /\ state.error_message = "classificar_dados"
        /\ "data_collected" \in DOMAIN result.report
        /\ result.report.data_collected = json_loads(state.raw_data_json).len
        /\ pdf_job_meta \in DOMAIN submitted

HasErrorIndicator(report) ==
    "error" \in DOMAIN report \/ "error_message" \in DOMAIN report

\* C5: the report a run returns carries an error indicator exactly when a
\* stage of the run failed (stated for the reports that were assembled, in the
\* runs in which no database or file operation failed).
C5_ErrorIndicator ==
    (KickoffReturned /\ NoFaults /\ result.report # <<>>) =>
        (failed # {} <=> HasErrorIndicator(result.report))

\* C6: every job handed to the pool eventually reaches completed or failed.
C6_EveryJobTerminates ==
    \A j \in 1..MaxJobs :
        [](j \in DOMAIN submitted =>
             <>(j \in DOMAIN jobs /\ Terminal(jobs[j].status)))

ErrorOf(outcome) ==
    CASE outcome = "path" -> None
      [] outcome = "error" -> "Falha ao gerar PDF"
      [] OTHER -> "exception"

\* C7: every call of enqueue_pdf_job made an entry of its own, and the
\* metadata of a job that was rendered derives from the arguments of its own
\* submission and from the outcome of its own render.
C7_JobIsolation ==
    /\ Cardinality(DOMAIN jobs) = next_job
    /\ \A j \in DOMAIN jobs :
         /\ jobs[j].job_id = j
         /\ j \in DOMAIN submitted =>
              jobs[j].search_query_id = submitted[j].search_query_id
         /\ Terminal(jobs[j].status) =>
              /\ jobs[j].output_path = submitted[j].output_path
              /\ jobs[j].error = ErrorOf(render[j])
              /\ jobs[j].status = IF render[j] = "path" THEN "completed" ELSE "failed"

\* Two jobs of different submissions and different render outcomes are done
C7_Witness ==
    \E j, k \in DOMAIN jobs :
        /\ Terminal(jobs[j].status) /\ Terminal(jobs[k].status)
        /\ \A w \in 1..MaxWorkers : workers[w].at = "idle"
        /\ jobs[j].status # jobs[k].status
        /\ submitted[j].output_path # submitted[k].output_path
        /\ submitted[j].search_query_id # submitted[k].search_query_id

\* C8: the status the caller reads from the metadata enqueue_pdf_job
\* returned is pending, whatever the worker did in the meantime (stated for
\* the runs in which no database or file operation failed).
C8_ReturnedMetaPending ==
    (KickoffReturned /\ NoFaults /\ "pdf_job" \in DOMAIN result.report) =>
        result.report.pdf_job.status = "pending"

StatusStep(a, b) ==
    \/ a = b
    \/ a = "pending" /\ b = "processing"
    \/ a = "processing" /\ Terminal(b)

Settled(old, new) ==
    Terminal(old.status) =>
        /\ new.status = old.status
        /\ new.output_path = old.output_path
        /\ new.error = old.error

\* C9: in the index and in the durable record a job's status only moves
\* pending -> processing -> completed or failed, and once it is completed or
\* failed its status, output_path and error do not change.
C9_StatusMonotone ==
    [][/\ \A j \in DOMAIN jobs :
            /\ j \in DOMAIN jobs'
            /\ StatusStep(jobs[j].status, jobs'[j].status)
            /\ Settled(jobs[j], jobs'[j])
       /\ \A j \in DOMAIN files :
            /\ j \in DOMAIN files'
            /\ StatusStep(files[j].status, files'[j].status)
            /\ Settled(files[j], files'[j])]_vars

\* A failed job whose finally block has run, in the index and on disk
C9_Witness ==
    \E j \in DOMAIN jobs :
        /\ jobs[j].status = "failed"
        /\ j \in DOMAIN files /\ files[j].status = "failed"
        /\ \A w \in 1..MaxWorkers : workers[w].job_id # j

\* C10: get_job_meta answers with the entry of the index when there is one,
\* otherwise with the durable record when there is one, otherwise with the
\* not_found sentinel.
C10_LookupOrder ==
    got # NoAnswer =>
        /\ got.job_id \in DOMAIN jobs => got.meta = jobs[got.job_id]
        /\ (got.job_id \notin DOMAIN jobs /\ got.job_id \in DOMAIN files) =>
              got.meta = files[got.job_id]
        /\ (got.job_id \notin DOMAIN jobs /\ got.job_id \notin DOMAIN files) =>
              got.meta = NotFound

\* After a restart the index is empty and the lookup answers with the record
\* last persisted for a job that was being rendered
C10_Witness ==
    /\ got # NoAnswer
    /\ jobs = <<>>
    /\ got.job_id \in DOMAIN files
    /\ got.meta.status = "processing"

\* C11: a change of a job's metadata in memory is followed by the write of the
\* durable record as the very next step of the worker that made it: while a
\* worker holds a job whose metadata in memory differs from the durable
\* record, its next step leaves the two equal (stated for the steps in which
\* no database or file operation has failed).
C11_WriteThrough ==
    [][\A w \in 1..MaxWorkers :
         LET j == workers[w].job_id
         IN  (/\ j # 0
              /\ workers'[w] # workers[w]
              /\ jobs[j] # files[j]
              /\ faults' = 0) => files'[j] = jobs'[j]]_vars

SameContent(x, y) ==
    x.search_query_id = y.search_query_id /\ x.content = y.content

\* C12: two calls of insert_search_result_raw with the same content for the
\* same search_query_id return the same id, and the table holds at most one
\* row per search_query_id and content (stated for the behaviours in which no
\* database operation failed).
C12_IdempotentInsert ==
    NoFaults =>
        /\ \A i, j \in 1..Len(raw_ids) :
              SameContent(raw_ids[i], raw_ids[j]) =>
                  raw_ids[i].id = raw_ids[j].id
        /\ \A i, j \in 1..Len(raw_rows) :
              (/\ raw_rows[i].search_query_id = raw_rows[j].search_query_id
               /\ raw_rows[i].raw_json.content = raw_rows[j].raw_json.content)
                  => i = j

\* data_collected of the report of a run whose raw_data_json is the output of
\* the collector
DataCollectedOf(out) ==
    FinalReport(InitialState(out.search_query_id, "c"), out.raw_data,
                EmptyList, EmptyDict, EmptyDict).data_collected

\* C13: data_collected of the report equals the number of rows stored for the
\* run by the collector, which started with no row of the run (stated for the
\* runs in which no database operation failed).
C13_DataCollectedIsRowCount ==
    [][(/\ collector_out = NoOutput
        /\ collector_out' # NoOutput
        /\ faults' = 0
        /\ RowsOf(raw_rows, collector_out'.search_query_id) = {}) =>
          DataCollectedOf(collector_out') =
              Cardinality(RowsOf(raw_rows', collector_out'.search_query_id))]_vars

\* The run started with an empty search_criteria or an unset search_query_id
InvalidStart == state.search_criteria = "" \/ state.search_query_id = None

\* C14: a run started with an empty search_criteria or an unset
\* search_query_id invokes no stage capability, whatever the other fields of
\* the initial state hold (stated for the runs in which no database operation
\* failed).
C14_InvalidStartInvokesNothing ==
    (/\ pc \notin {"idle", "iniciar_pesquisa"}
     /\ InvalidStart
     /\ NoFaults) => invoked = {}

\* C15: when execute_analysis has returned an assembled final report, the
\* status of the query is completed.
C15_ReportingCompletes ==
    (/\ caller = "service"
     /\ KickoffReturned
     /\ result.report # <<>>) => query_status = "completed"

ReportKeys ==
    {"search_criteria", "data_collected", "classified_data", "analysis_results",
     "visualizations", "insights"}

\* The step of _generate_final_report in which enqueue_pdf_job was called and
\* raised before submitting the job, and nothing else failed
EnqueueRaised ==
    /\ pc = "report"
    /\ next_job' = next_job + 1
    /\ submitted' = submitted
    /\ faults' = faults + 1

\* C16: when enqueue_pdf_job raises during reporting the run does not fail:
\* no error is recorded, the failure is written to the log of the query (when
\* the run has a query id to log under), and kickoff returns the assembled
\* final report with its six content fields.
C16_EnqueueFailureTolerated ==
    [][EnqueueRaised =>
          /\ pc' = "returned"
          /\ result'.kind = "report"
          /\ result'.report = state'.final_report
          /\ ReportKeys \subseteq DOMAIN result'.report
          /\ state'.error_message = state.error_message
          /\ Truthy(state.search_query_id) =>
                <<"falha_enfileirar", 0>> \in search_log']_vars

C16_Witness ==
    /\ KickoffReturned
    /\ caller = "service"
    /\ next_job = 1
    /\ DOMAIN submitted = {}
    /\ ReportKeys \subseteq DOMAIN result.report
    /\ "pdf_job" \notin DOMAIN result.report
    /\ <<"falha_enfileirar", 0>> \in search_log

\* The step in which thread w calls PDFReportTool()._run for its job
Renders(w) ==
    workers[w].at = "picked" /\ workers'[w].at \in {"updated", "rendered"}

\* The metadata get_job_meta returns for job_id shows the failure
ShowsFailure(job_id) ==
    /\ GetJobMeta(job_id).status = "failed"
    /\ GetJobMeta(job_id).error # None

\* C17: the rendering collaborator is called for a job that was submitted and
\* was not rendered before (no retry); the call changes nothing of the
\* submitter, whose enqueue has already returned; and from then on a render
\* that failed, by answering an error or by raising, shows in the metadata
\* get_job_meta returns as status failed with an error.
C17_RenderFailure ==
    [][/\ \A w \in 1..MaxWorkers :
            Renders(w) =>
              /\ workers[w].job_id \in DOMAIN submitted
              /\ workers[w].job_id \notin DOMAIN render
              /\ UNCHANGED <<pc, caller, state, result, got, queue, submitted,
                             next_job>>
       /\ \A j \in DOMAIN render' :
            render'[j] # "path" => ShowsFailure(j)']_vars

\* A job whose render raised has run to its end and shows as failed
C17_Witness ==
    /\ \E j \in DOMAIN render :
          /\ render[j] = "exception"
          /\ ShowsFailure(j)
          /\ GetJobMeta(j).error = "exception"
          /\ j \in DOMAIN files /\ files[j].status = "failed"
    /\ \A w \in 1..MaxWorkers : workers[w].at = "idle"

\* Least element of a non-empty set of positions
Min(S) == CHOOSE i \in S : \A k \in S : i <= k

\* Positions of the tools that are of the requested class
OfType(call) ==
    {i \in 1..Len(call.tools) :
        call.cls = "BaseTool" \/ call.tools[i].cls = call.cls}

\* Positions of the tools whose name or class name is the requested name, the
\* case of the letters aside
Named(call) ==
    {i \in 1..Len(call.tools) :
        \/ call.tools[i].name # None /\ Lower(call.tools[i].name) = Lower(call.name)
        \/ Lower(call.tools[i].cls) = Lower(call.name)}

\* C18: execute_task invokes the first tool of the requested type when a type
\* is given and such a tool is present; otherwise the first tool matching the
\* requested name, case aside; otherwise the first tool; and with no agent or
\* no tool it raises without invoking anything.
C18_SelectionOrder ==
    task_call.at = "done" =>
        IF ~task_call.agent \/ task_call.tools = <<>>
        THEN /\ task_call.chosen = 0
             /\ task_call.res.raised
             /\ task_call.res.attempts = 0
        ELSE /\ task_call.res.attempts >= 1
             /\ task_call.chosen =
                  IF task_call.cls # None /\ OfType(task_call) # {}
                  THEN Min(OfType(task_call))
                  ELSE IF task_call.name # None /\ Named(task_call) # {}
                  THEN Min(Named(task_call))
                  ELSE 1

\* A call in which the name decides, by a match that differs in case, for a
\* tool that is not the first
C18_Witness ==
    /\ task_call.at = "done"
    /\ task_call.agent
    /\ task_call.cls # None
    /\ OfType(task_call) = {}
    /\ task_call.name = "VISUALIZATIONTOOL"
    /\ task_call.chosen = 2
    /\ ~task_call.res.raised

\* C19: once a tool is chosen, execute_task with retries = r calls it at most
\* r times, and once when r <= 0; every call before the last one raised; a
\* call that returns is the last one and its value is the result; and when the
\* last call raised, all r calls were made and a RuntimeError is raised that
\* holds that last exception.
C19_RetryLoop ==
    (task_call.at = "done" /\ task_call.chosen # 0) =>
        LET r == task_call.retries
            res == task_call.res
            outs == task_call.outs
            most == IF r <= 0 THEN 1 ELSE r
        IN  /\ res.attempts \in 1..most
            /\ \A i \in 1..(res.attempts - 1) : outs[i] \in Raises
            /\ IF outs[res.attempts] \in Raises
               THEN /\ res.raised
                    /\ res.attempts = most
                    /\ res.error[3] = outs[res.attempts]
               ELSE /\ ~res.raised
                    /\ res.out = outs[res.attempts]

\* Two attempts that raised different exceptions: the error holds the second
C19_Witness ==
    /\ task_call.at = "done"
    /\ task_call.chosen # 0
    /\ task_call.retries = 2
    /\ task_call.outs = <<Raise, "<raise2>">>
    /\ task_call.res.raised
    /\ task_call.res.attempts = 2
    /\ task_call.res.error[3] = "<raise2>"

\* C20: error_message is assigned at most once in a run: once it is set, no
\* step of the run changes it (stated for the runs in which no database
\* operation failed).
C20_ErrorMessageSetOnce ==
    [][(/\ pc # "idle"
        /\ state.error_message # None
        /\ faults' = 0) =>
          state'.error_message = state.error_message]_vars

\* C21: a failed audit-log write changes nothing of what the pipeline does.
\* The only operations of iniciar_pesquisa and coletar_dados that the fault
\* flags make fail are insert_search_log calls, so whatever they do: the
\* stage after iniciar_pesquisa is coletar_dados, the stage after
\* coletar_dados is classificar_dados, and coletar_dados changes
\* error_message only when its capability raised.
C21_LogFailureChangesNothing ==
    [][/\ pc = "iniciar_pesquisa" => pc' = "coletar_dados"
       /\ pc = "coletar_dados" =>
            /\ pc' = "classificar_dados"
            /\ state'.error_message # state.error_message =>
                  "coletar_dados" \in failed']_vars

Finished(job_id) ==
    /\ job_id \in DOMAIN render
    /\ \A w \in 1..MaxWorkers : workers[w].job_id # job_id

\* C23: once _run_pdf_job has ended for a job that was submitted with a
\* search_query_id and the job is completed or failed, a log entry about the
\* outcome of that job was written (stated for the runs in which no write
\* failed, where an attempted write is a written entry).
C23_OutcomeLogged ==
    NoFaults =>
        \A j \in DOMAIN submitted :
            (/\ Finished(j)
             /\ Terminal(jobs[j].status)
             /\ Truthy(submitted[j].search_query_id)) =>
                \E tag \in {"pdf_gerado", "pdf_falha"} : <<tag, j>> \in search_log

\* kickoff has returned a final report that refers to a PDF job
ReportHasJob ==
    /\ KickoffReturned
    /\ result.report # <<>>
    /\ "pdf_job" \in DOMAIN result.report

\* C24: when kickoff has returned a final report with a pdf_job reference,
\* the metadata file of that job_id exists and is the record of that job.
C24_ReportedJobIsDurable ==
    ReportHasJob =>
        /\ result.report.pdf_job.job_id \in DOMAIN files
        /\ files[result.report.pdf_job.job_id].job_id = result.report.pdf_job.job_id

\* The report is back while the job it refers to is still waiting in the queue
C24_Witness ==
    /\ ReportHasJob
    /\ result.report.pdf_job.job_id \in DOMAIN files
    /\ files[result.report.pdf_job.job_id].status = "pending"
    /\ queue # <<>>

\* A thread of the pool is between the update of job_id's metadata with the
\* outcome of the render (lines 97, 109, 120) and the end of its finally
\* block (lines 122-125), where the update is completed and stored
MidUpdate(job_id) ==
    \E w \in 1..MaxWorkers :
        workers[w].job_id = job_id /\ workers[w].at \in {"updated", "rendered"}

\* C25: no reader is given the metadata of a job while a worker thread is in
\* the middle of updating it.
C25_IndexMutualExclusion ==
    [][\A j \in DOMAIN jobs :
          (got' # got /\ got'.job_id = j) => ~MidUpdate(j)]_vars

\* The stage that runs just before each stage of the pipeline
PreviousStage ==
    [coletar_dados |-> "iniciar_pesquisa", classificar_dados |-> "coletar_dados",
     analisar_dados |-> "classificar_dados",
     gerar_visualizacoes |-> "analisar_dados", report |-> "gerar_visualizacoes"]

Frame(fields) == \A f \in DOMAIN state \ fields : state'[f] = state[f]

\* The payload field each stage owns
OwnField ==
    [coletar_dados |-> "raw_data_json",
     classificar_dados |-> "classified_data_json",
     analisar_dados |-> "analysis_results_json",
     gerar_visualizacoes |-> "visualizations_json"]

\* C27: a step of coletar_dados, classificar_dados, analisar_dados or
\* gerar_visualizacoes changes no field of the state but the stage's own
\* payload field and error_message; classificar_dados does not change
\* error_message either; iniciar_pesquisa changes error_message only.
C27_StageWritesOwnField ==
    [][/\ pc \in DOMAIN OwnField => Frame({OwnField[pc], "error_message"})
       /\ pc = "classificar_dados" => Frame({"classified_data_json"})
       /\ pc = "iniciar_pesquisa" => Frame({"error_message"})]_vars

\* Every stage has stored the output of its capability
C27_Witness ==
    /\ pc = "report"
    /\ invoked = DOMAIN OwnField
    /\ failed = {}
    /\ \A st \in DOMAIN OwnField : state[OwnField[st]] = "[x]"
    /\ state.search_criteria = "c"
    /\ state.search_query_id = "q1"

Processing == {j \in DOMAIN jobs : jobs[j].status = "processing"}

\* C28: after every step at most MaxWorkers jobs have status processing, and
\* a job that was handed to the pool leaves pending only when no job handed
\* to the pool before it is still pending.
C28_PoolBound ==
    [][/\ Cardinality(Processing') <= MaxWorkers
       /\ \A j \in DOMAIN submitted :
            (jobs[j].status = "pending" /\ jobs'[j].status # "pending") =>
                \A i \in DOMAIN submitted : i < j => jobs[i].status # "pending"]_vars

\* C29: two jobs handed to the pool with the default output_path never have
\* the same output_path.
C29_DefaultPathsDiffer ==
    \A i, j \in DOMAIN submitted :
        i # j => submitted[i].output_path # submitted[j].output_path

\* C30: a job that the index shows as pending has been handed to the pool,
\* and a job that the index shows as processing is held by a thread of the
\* pool.
C30_NoOrphanJobs ==
    \A j \in DOMAIN jobs :
        /\ jobs[j].status = "pending" => j \in DOMAIN submitted
        /\ jobs[j].status = "processing" =>
              \E w \in 1..MaxWorkers : workers[w].job_id = j

====
